---- MODULE Spec2Model ----
(***************************************************************************)
(* logroller: a rolling-file writer (src/src/lib.rs).                      *)
(*                                                                         *)
(* The model holds the directory of the writer (names -> inodes), the      *)
(* inodes' contents, the LogRoller value (meta, state, writer handle) and  *)
(* the background threads spawned by refresh_writer, each at its position  *)
(* inside process_old_logs (compress, then prune).                         *)
(*                                                                         *)
(* File names.  Every name the program makes has the shape                 *)
(*   filename            [n |-> 0, gz |-> FALSE]   (canonical, size mode)  *)
(*   filename.<n>        [n |-> n, gz |-> FALSE]                           *)
(*   filename.<n>.gz     [n |-> n, gz |-> TRUE ]                           *)
(* where <n> is the numeric suffix in size mode and the rendered           *)
(* timestamp of a granularity period (the period's number) in age mode.    *)
(* An inode's number is its creation order, so it stands for the           *)
(* filesystem creation time prune sorts by (rename keeps it).              *)
(***************************************************************************)
EXTENDS Integers, Sequences, FiniteSets, TLC

VARIABLES
    cfg,        \* LogRollerMeta: the immutable policy
    lim,        \* the run's bounds: write calls, injected failures, restarts
    dir,        \* the directory: file name -> inode
    files,      \* inode -> [data, enc]; index = inode number = creation order
    writer,     \* LogRoller.writer: the inode the open handle refers to
    state,      \* LogRollerState
    now,        \* the wall clock, in ticks
    tasks,      \* the spawned process_old_logs threads still running
    lens,       \* history: buffer lengths of the write calls of this writer
    written,    \* history: number of bytes appended by successful writes
    faults,     \* history: injected I/O failures so far
    restarts,   \* history: re-constructions over the same directory
    rotations,  \* history: rotations that swapped the handle (this writer)
    maxSuffix,  \* history: highest suffix any size rotation renamed onto
    segs,       \* history: closed segments handed to a pipeline
    retired,    \* history: inodes this writer's handle was swapped away from
    paths,      \* history: target paths of this writer's rotations
    last,       \* history: the last operation and its outcome
    callers,    \* the threads sharing &LogRoller: position inside make_writer
    rwlock,     \* LogRoller.writer's RwLock: read guards held, write guard held
    calls       \* history: make_writer calls so far

vars == <<cfg, lim, dir, files, writer, state, now, tasks, lens, written, faults,
          restarts, rotations, maxSuffix, segs, retired, paths, last,
          callers, rwlock, calls>>

----------------------------------------------------------------------------
(* Bounds of the model *)

MaxWrites == 4
MaxRotating == 3
MaxFaults == 1
MaxRestarts == 1
MaxTime == 8
Unit == 2
MaxThreads == 2
MaxCalls == 3

----------------------------------------------------------------------------
(* Names, files and the directory *)

NoKeep == -1

Canon == [n |-> 0, gz |-> FALSE]

Plain(n) == [n |-> n, gz |-> FALSE]

GzOf(p) == [n |-> p.n, gz |-> TRUE]

EmptyFile == [data |-> <<>>, enc |-> "raw"]

EmptyDir == [p \in {} |-> 0]

Link(d, p, ino) == [q \in (DOMAIN d) \cup {p} |-> IF q = p THEN ino ELSE d[q]]

Unlink(d, p) == [q \in (DOMAIN d) \ {p} |-> d[q]]

Max(S) == CHOOSE x \in S : \A y \in S : y <= x

RECURSIVE Sum(_)
Sum(s) == IF s = <<>> THEN 0 ELSE s[1] + Sum(Tail(s))

Bytes(from, n) == [i \in 1..n |-> from + i]

----------------------------------------------------------------------------
(* Time *)

Period(t) == t \div Unit

\* get_next_age_based_log_path: directory/filename.<datetime formatted to the
\* granularity>; the format drops everything below the granularity.
AgePath(t) == Plain(Period(t))

\* next_time rounding the base up to a boundary instead
NextTimeRoundsUp(t) == ((t + Unit - 1) \div Unit) * Unit

\* next_time: base + one unit, with the fields below the granularity zeroed.
NextTime(t) == ((t + Unit) \div Unit) * Unit

----------------------------------------------------------------------------
(* Construction *)

\* get_next_size_based_index: "filename.<suffix>" with <suffix> parsing as
\* usize; "3.gz" does not parse, and in age mode no timestamp does.
ParsedSuffixes(m, d) ==
    IF m.mode = "size" THEN {p.n : p \in {q \in DOMAIN d : q.n > 0 /\ ~q.gz}}
    ELSE {}

GetNextSizeBasedIndex(m, d) == Max(ParsedSuffixes(m, d) \cup {0}) + 1

\* get_curr_size_based_file_size: metadata(directory/filename).len(), or 0.
GetCurrSizeBasedFileSize(d, fs) ==
    IF Canon \in DOMAIN d THEN Len(fs[d[Canon]].data) ELSE 0

GetCurrLogPath(m, t) == IF m.mode = "size" THEN Canon ELSE AgePath(t)

\* create_log_file: OpenOptions append(true).create(true).
\* fail is an injected failure of the open.
CreateLogFile(d, fs, p, fail) ==
    IF fail THEN [ok |-> FALSE, dir |-> d, files |-> fs, ino |-> 0]
    ELSE IF p \in DOMAIN d THEN [ok |-> TRUE, dir |-> d, files |-> fs, ino |-> d[p]]
    ELSE [ok |-> TRUE, dir |-> Link(d, p, Len(fs) + 1),
          files |-> Append(fs, EmptyFile), ino |-> Len(fs) + 1]

\* LogRollerBuilder::build over directory d at time t.
Build(m, d, fs, t) ==
    LET p == GetCurrLogPath(m, t)
        c == CreateLogFile(d, fs, p, FALSE)
    IN [state |-> [next_size_based_index |-> GetNextSizeBasedIndex(m, d),
                   next_age_based_time |-> NextTime(t),
                   curr_file_path |-> p,
                   curr_file_size_bytes |-> GetCurrSizeBasedFileSize(d, fs)],
        dir |-> c.dir, files |-> c.files, writer |-> c.ino]

----------------------------------------------------------------------------
(* The rotation decision *)

\* should_rollover with > where the code has >=
ShouldRolloverStrict(m, s, t) ==
    IF m.mode = "size"
    THEN IF s.curr_file_size_bytes > m.threshold
         THEN {Plain(s.next_size_based_index)} ELSE {}
    ELSE IF t > s.next_age_based_time
         THEN {AgePath(s.next_age_based_time)} ELSE {}

\* LogRoller::should_rollover: the Option<PathBuf> as a set of at most one path.
ShouldRollover(m, s, t) ==
    IF m.mode = "size"
    THEN IF s.curr_file_size_bytes >= m.threshold
         THEN {Plain(s.next_size_based_index)} ELSE {}
    ELSE IF t >= s.next_age_based_time
         THEN {AgePath(s.next_age_based_time)} ELSE {}

----------------------------------------------------------------------------
(* The background thread: process_old_logs = compress, then prune *)

PruneEntry(m) == IF m.max_keep_files = NoKeep THEN "exit" ELSE "list"

CompressEntry(m) == IF m.compression = "gzip" THEN "open" ELSE PruneEntry(m)

\* The closure handed to std::thread::spawn; id names the closed segment in segs.
NewTask(m, p, id) == [id |-> id, path |-> p, pc |-> CompressEntry(m),
                      infile |-> 0, out |-> 0, todo |-> <<>>]

\* refresh_writer without the assignment *writer = log_file
RefreshWriterKeepsHandle(m, d, fs, w, old, new, fault, id) ==
    IF m.mode = "size"
    THEN IF fault = "rename" \/ Canon \notin DOMAIN d
         THEN [ok |-> FALSE, dir |-> d, files |-> fs, writer |-> w,
               spawned |-> <<>>]
         ELSE LET d1 == Link(Unlink(d, Canon), new, d[Canon])
                  c == CreateLogFile(d1, fs, Canon, fault = "create")
              IN [ok |-> TRUE, dir |-> c.dir, files |-> c.files, writer |-> w,
                  spawned |-> IF c.ok THEN <<NewTask(m, new, id)>> ELSE <<>>]
    ELSE LET c == CreateLogFile(d, fs, new, fault = "create")
         IN [ok |-> TRUE, dir |-> c.dir, files |-> c.files, writer |-> w,
             spawned |-> IF c.ok THEN <<NewTask(m, old, id)>> ELSE <<>>]

\* refresh_writer. old is the path the state holds, new the rollover target,
\* fault the injected failure ("rename", "create" or none of these).
RefreshWriter(m, d, fs, w, old, new, fault, id) ==
    IF m.mode = "size"
    THEN IF fault = "rename" \/ Canon \notin DOMAIN d
         THEN [ok |-> FALSE, dir |-> d, files |-> fs, writer |-> w,
               spawned |-> <<>>]
         ELSE LET d1 == Link(Unlink(d, Canon), new, d[Canon])
                  c == CreateLogFile(d1, fs, Canon, fault = "create")
              IN IF c.ok
                 THEN [ok |-> TRUE, dir |-> c.dir, files |-> c.files,
                       writer |-> c.ino, spawned |-> <<NewTask(m, new, id)>>]
                 ELSE [ok |-> TRUE, dir |-> d1, files |-> fs, writer |-> w,
                       spawned |-> <<>>]
    ELSE LET c == CreateLogFile(d, fs, new, fault = "create")
         IN IF c.ok
            THEN [ok |-> TRUE, dir |-> c.dir, files |-> c.files,
                  writer |-> c.ino, spawned |-> <<NewTask(m, old, id)>>]
            ELSE [ok |-> TRUE, dir |-> d, files |-> fs, writer |-> w,
                  spawned |-> <<>>]

\* The steps of one thread.  Each returns the directory and files after the
\* step, the thread's record, and end: "" (still running), "ok" or "err"
\* (process_old_logs returned Ok or Err).  fail is an injected I/O failure.
Running(d, fs, t) == [dir |-> d, files |-> fs, task |-> t, end |-> ""]

Ended(d, fs, t, how) == [dir |-> d, files |-> fs, task |-> t, end |-> how]

\* compress: fs::File::open(log_path)
CompressOpen(m, d, fs, t, fail) ==
    IF fail \/ t.path \notin DOMAIN d THEN Ended(d, fs, t, "err")
    ELSE Running(d, fs, [t EXCEPT !.infile = d[t.path], !.pc = "create"])

\* compress: fs::File::create("<log_path>.gz") creates the file or truncates it
CompressCreate(m, d, fs, t, fail) ==
    LET g == GzOf(t.path)
    IN IF fail THEN Ended(d, fs, t, "err")
       ELSE IF g \in DOMAIN d
       THEN Running(d, [fs EXCEPT ![d[g]] = EmptyFile],
                    [t EXCEPT !.out = d[g], !.pc = "copy"])
       ELSE Running(Link(d, g, Len(fs) + 1), Append(fs, EmptyFile),
                    [t EXCEPT !.out = Len(fs) + 1, !.pc = "copy"])

\* compress going on to remove_file after a failed copy
CompressCopyIgnoresError(m, d, fs, t, fail) ==
    IF fail THEN Running(d, fs, [t EXCEPT !.pc = "remove"])
    ELSE Running(d, [fs EXCEPT ![t.out] = [data |-> fs[t.infile].data,
                                           enc |-> "gzip"]],
                 [t EXCEPT !.pc = "remove"])

\* compress: io::copy into the encoder, encoder.finish()
CompressCopy(m, d, fs, t, fail) ==
    IF fail THEN Ended(d, fs, t, "err")
    ELSE Running(d, [fs EXCEPT ![t.out] = [data |-> fs[t.infile].data,
                                           enc |-> "gzip"]],
                 [t EXCEPT !.pc = "remove"])

\* compress without the remove_file of the plain file
CompressRemoveKeepsPlain(m, d, fs, t, fail) ==
    IF fail THEN Ended(d, fs, t, "err")
    ELSE IF PruneEntry(m) = "exit" THEN Ended(d, fs, t, "ok")
    ELSE Running(d, fs, [t EXCEPT !.pc = "list"])

\* compress: fs::remove_file(log_path), then on to prune
CompressRemove(m, d, fs, t, fail) ==
    IF fail \/ t.path \notin DOMAIN d THEN Ended(d, fs, t, "err")
    ELSE IF PruneEntry(m) = "exit" THEN Ended(Unlink(d, t.path), fs, t, "ok")
    ELSE Running(Unlink(d, t.path), fs, [t EXCEPT !.pc = "list"])

\* prune's file_pattern: size mode ^filename(\.\d+)?(\.gz)?$, age mode
\* ^filename\.<timestamp>(\.gz)?$
Matches(m, p) == IF m.mode = "size" THEN TRUE ELSE p.n > 0

\* sort_by_key(created_at): ascending creation time
RECURSIVE SortByCreated(_, _)
SortByCreated(d, S) ==
    IF S = {} THEN <<>>
    ELSE LET p == CHOOSE x \in S : \A y \in S : d[x] <= d[y]
         IN <<p>> \o SortByCreated(d, S \ {p})

\* prune: read_dir, filter, sort, take(len - max_keep_files)
PruneList(m, d, fs, t, fail) ==
    LET all == {p \in DOMAIN d : Matches(m, p)}
        n == Cardinality(all)
    IN IF fail THEN Ended(d, fs, t, "err")
       ELSE IF n < m.max_keep_files \/ n = m.max_keep_files
       THEN Ended(d, fs, t, "ok")
       ELSE Running(d, fs, [t EXCEPT !.pc = "delete",
                            !.todo = SubSeq(SortByCreated(d, all), 1,
                                            n - m.max_keep_files)])

\* prune: fs::remove_file of the next listed path; a failure is only logged
PruneDelete(m, d, fs, t, fail) ==
    LET p == Head(t.todo)
        d1 == IF fail THEN d ELSE Unlink(d, p)
    IN IF Len(t.todo) = 1 THEN Ended(d1, fs, t, "ok")
       ELSE Running(d1, fs, [t EXCEPT !.todo = Tail(@)])

\* a thread with neither compression nor retention configured returns at once
ThreadExit(m, d, fs, t, fail) == Ended(d, fs, t, "ok")

StepOf(m, d, fs, t, fail) ==
    CASE t.pc = "open" -> CompressOpen(m, d, fs, t, fail)
      [] t.pc = "create" -> CompressCreate(m, d, fs, t, fail)
      [] t.pc = "copy" -> CompressCopy(m, d, fs, t, fail)
      [] t.pc = "remove" -> CompressRemove(m, d, fs, t, fail)
      [] t.pc = "list" -> PruneList(m, d, fs, t, fail)
      [] t.pc = "delete" -> PruneDelete(m, d, fs, t, fail)
      [] t.pc = "exit" -> ThreadExit(m, d, fs, t, fail)

----------------------------------------------------------------------------
(* The write path *)

\* the state update without recomputing the deadline
AdvanceStateStale(m, s, new, t) ==
    IF m.mode = "size"
    THEN [s EXCEPT !.curr_file_path = new,
                   !.curr_file_size_bytes = 0,
                   !.next_size_based_index = @ + 1]
    ELSE [s EXCEPT !.curr_file_path = new,
                   !.curr_file_size_bytes = 0]

\* write, lines 531-545: the state after a rollover whose refresh_writer
\* returned Ok
AdvanceState(m, s, new, t) ==
    IF m.mode = "size"
    THEN [s EXCEPT !.curr_file_path = new,
                   !.curr_file_size_bytes = 0,
                   !.next_size_based_index = @ + 1]
    ELSE [s EXCEPT !.curr_file_path = new,
                   !.curr_file_size_bytes = 0,
                   !.next_age_based_time = NextTime(t)]

\* the counter bumped twice per call
CountBytesTwice(s, len) == [s EXCEPT !.curr_file_size_bytes = @ + len + len]

\* write, line 547
CountBytes(s, len) == [s EXCEPT !.curr_file_size_bytes = @ + len]

\* write, line 548: File::write appends (the handle is in append mode); it
\* returns the number of bytes, modelled as all of them, or an error (-1).
AppendBytes(fs, ino, from, len, fail) ==
    IF fail THEN [files |-> fs, ret |-> -1]
    ELSE [files |-> [fs EXCEPT ![ino].data = @ \o Bytes(from, len)], ret |-> len]

Faults == {"none", "rename", "create", "write"}

\* &mut self: the borrow checker admits the call only while no RollingWriter
\* borrows the LogRoller and no make_writer call is running
Exclusive == \A th \in DOMAIN callers : callers[th] = "idle"

\* impl io::Write for LogRoller: write(buf) with Len(buf) = len
Write(len, fault) ==
    LET target == ShouldRollover(cfg, state, now)
        decided == target # {}
        new == CHOOSE p \in target : TRUE
        r == RefreshWriter(cfg, dir, files, writer, state.curr_file_path, new,
                           fault, Len(segs) + 1)
    IN /\ Len(lens) < lim.writes
       /\ Exclusive
       /\ fault # "none" => faults < lim.faults
       /\ fault = "rename" => decided /\ cfg.mode = "size" /\ Canon \in DOMAIN dir
       /\ fault = "create" => decided /\ (cfg.mode = "size" => Canon \in DOMAIN dir)
       /\ lens' = Append(lens, len)
       /\ faults' = IF fault = "none" THEN faults ELSE faults + 1
       /\ UNCHANGED <<cfg, lim, now, restarts, callers, rwlock, calls>>
       /\ IF decided /\ ~r.ok
          THEN \* refresh_writer's error leaves write through the ? of line 530
               /\ UNCHANGED <<dir, files, writer, state, tasks, written,
                              rotations, maxSuffix, segs, retired, paths>>
               /\ last' = [op |-> "write", fault |-> fault, decided |-> TRUE,
                           swapped |-> FALSE, ret |-> -1]
          ELSE LET d1 == IF decided THEN r.dir ELSE dir
                   f1 == IF decided THEN r.files ELSE files
                   w1 == IF decided THEN r.writer ELSE writer
                   sp == IF decided THEN r.spawned ELSE <<>>
                   s1 == IF decided THEN AdvanceState(cfg, state, new, now)
                         ELSE state
                   a == AppendBytes(f1, w1, written, len, fault = "write")
               IN /\ dir' = d1
                  /\ writer' = w1
                  /\ state' = CountBytes(s1, len)
                  /\ files' = a.files
                  /\ tasks' = tasks \o sp
                  /\ written' = IF a.ret < 0 THEN written ELSE written + a.ret
                  /\ rotations' = IF w1 # writer THEN rotations + 1 ELSE rotations
                  /\ maxSuffix' = IF decided /\ cfg.mode = "size"
                                  THEN IF new.n > maxSuffix THEN new.n
                                       ELSE maxSuffix
                                  ELSE maxSuffix
                  /\ segs' = IF sp = <<>> THEN segs
                             ELSE Append(segs, [path |-> sp[1].path,
                                                data |-> files[writer].data,
                                                result |-> "running"])
                  /\ retired' = IF w1 # writer THEN retired \cup {writer}
                                ELSE retired
                  /\ paths' = IF decided THEN Append(paths, new.n) ELSE paths
                  /\ last' = [op |-> "write", fault |-> fault,
                              decided |-> decided, swapped |-> w1 # writer,
                              ret |-> a.ret]

\* LogRollerBuilder::build again over the same directory: the old LogRoller
\* is dropped, its threads keep running
Restart ==
    LET b == Build(cfg, dir, files, now)
    IN /\ restarts < lim.restarts
       /\ Exclusive
       /\ restarts' = restarts + 1
       /\ dir' = b.dir
       /\ files' = b.files
       /\ writer' = b.writer
       /\ state' = b.state
       /\ retired' = {}
       /\ paths' = <<b.state.curr_file_path.n>>
       /\ last' = [op |-> "build", fault |-> "none", decided |-> FALSE,
                   swapped |-> FALSE, ret |-> 0]
       /\ UNCHANGED <<cfg, lim, now, tasks, lens, written, faults, rotations,
                      maxSuffix, segs, callers, rwlock, calls>>

\* the clock advances; only age mode reads it
Tick ==
    /\ cfg.mode = "age"
    /\ now < MaxTime
    /\ now' = now + 1
    /\ last' = [op |-> "tick", fault |-> "none", decided |-> FALSE,
                swapped |-> FALSE, ret |-> 0]
    /\ UNCHANGED <<cfg, lim, dir, files, writer, state, tasks, lens, written,
                   faults, restarts, rotations, maxSuffix, segs, retired, paths,
                   callers, rwlock, calls>>

RemoveAt(s, i) == SubSeq(s, 1, i - 1) \o SubSeq(s, i + 1, Len(s))

\* one step of the i-th running thread
Step(i, fail) ==
    LET t == tasks[i]
        r == StepOf(cfg, dir, files, t, fail)
    IN /\ fail => faults < lim.faults
       /\ fail => t.pc # "exit"
       /\ faults' = IF fail THEN faults + 1 ELSE faults
       /\ dir' = r.dir
       /\ files' = r.files
       /\ tasks' = IF r.end = "" THEN [tasks EXCEPT ![i] = r.task]
                   ELSE RemoveAt(tasks, i)
       /\ segs' = IF r.end = "" THEN segs
                  ELSE [segs EXCEPT ![t.id].result = r.end]
       /\ last' = [op |-> "step", fault |-> IF fail THEN "step" ELSE "none",
                   decided |-> FALSE, swapped |-> FALSE, ret |-> 0]
       /\ UNCHANGED <<cfg, lim, writer, state, now, lens, written, restarts,
                      rotations, maxSuffix, retired, paths, callers, rwlock,
                      calls>>

----------------------------------------------------------------------------
(* The shared-read entry: MakeWriter::make_writer and RollingWriter *)

Idle == [op |-> "lock", fault |-> "none", decided |-> FALSE,
         swapped |-> FALSE, ret |-> 0]

\* make_writer, lines 564-565: should_rollover on the state behind &self
MakeWriterEnter(th) ==
    /\ callers[th] = "idle"
    /\ calls < lim.calls
    /\ calls' = calls + 1
    /\ callers' = [callers EXCEPT ![th] =
                      IF ShouldRollover(cfg, state, now) # {}
                      THEN "lock_write" ELSE "lock_read"]
    /\ last' = Idle
    /\ UNCHANGED <<cfg, lim, dir, files, writer, state, now, tasks, lens,
                   written, faults, restarts, rotations, maxSuffix, segs,
                   retired, paths, rwlock>>

\* a write lock that does not wait for the read guards
CanLockWriteIgnoresReaders(l) == l.writer = 0

\* RwLock::write is granted while no guard of either kind is held
CanLockWrite(l) == l.readers = {} /\ l.writer = 0

\* RwLock::read is granted while no write guard is held
CanLockRead(l) == l.writer = 0

\* make_writer, line 569: self.writer.write()
MakeWriterLockWrite(th) ==
    /\ callers[th] = "lock_write"
    /\ CanLockWrite(rwlock)
    /\ rwlock' = [rwlock EXCEPT !.writer = th]
    /\ callers' = [callers EXCEPT ![th] = "refresh"]
    /\ last' = Idle
    /\ UNCHANGED <<cfg, lim, dir, files, writer, state, now, tasks, lens,
                   written, faults, restarts, rotations, maxSuffix, segs,
                   retired, paths, calls>>

\* make_writer keeping the write guard alive until it returns
MakeWriterRefreshKeepsGuard(th, fault) ==
    LET old == state.curr_file_path
        new == CHOOSE p \in ShouldRollover(cfg, state, now) : TRUE
        r == RefreshWriter(cfg, dir, files, writer, old, new, fault,
                           Len(segs) + 1)
    IN /\ callers[th] = "refresh"
       /\ fault \in {"none", "rename", "create"}
       /\ fault # "none" => faults < lim.faults
       /\ fault = "rename" => cfg.mode = "size" /\ Canon \in DOMAIN dir
       /\ fault = "create" => (cfg.mode = "size" => Canon \in DOMAIN dir)
       /\ faults' = IF fault = "none" THEN faults ELSE faults + 1
       /\ dir' = r.dir
       /\ files' = r.files
       /\ writer' = r.writer
       /\ tasks' = tasks \o r.spawned
       /\ segs' = IF r.spawned = <<>> THEN segs
                  ELSE Append(segs,
                         [path |-> r.spawned[1].path,
                          data |-> IF r.spawned[1].path \in DOMAIN r.dir
                                   THEN r.files[r.dir[r.spawned[1].path]].data
                                   ELSE <<>>,
                          result |-> "running"])
       /\ rotations' = IF r.spawned # <<>> THEN rotations + 1 ELSE rotations
       /\ maxSuffix' = IF r.ok /\ cfg.mode = "size" /\ new.n > maxSuffix
                       THEN new.n ELSE maxSuffix
       /\ retired' = IF r.writer # writer THEN retired \cup {writer}
                     ELSE retired
       /\ paths' = IF r.ok THEN Append(paths, new.n) ELSE paths
       /\ rwlock' = rwlock
       /\ callers' = [callers EXCEPT ![th] = "lock_read"]
       /\ last' = [op |-> "make_writer", fault |-> fault, decided |-> TRUE,
                   swapped |-> r.spawned # <<>>, ret |-> 0]
       /\ UNCHANGED <<cfg, lim, state, now, lens, written, restarts, calls>>

\* make_writer, lines 566-577: refresh_writer under the write guard, its
\* error only printed, the write guard dropped; self.state is not assigned
MakeWriterRefresh(th, fault) ==
    LET old == state.curr_file_path
        new == CHOOSE p \in ShouldRollover(cfg, state, now) : TRUE
        r == RefreshWriter(cfg, dir, files, writer, old, new, fault,
                           Len(segs) + 1)
    IN /\ callers[th] = "refresh"
       /\ fault \in {"none", "rename", "create"}
       /\ fault # "none" => faults < lim.faults
       /\ fault = "rename" => cfg.mode = "size" /\ Canon \in DOMAIN dir
       /\ fault = "create" => (cfg.mode = "size" => Canon \in DOMAIN dir)
       /\ faults' = IF fault = "none" THEN faults ELSE faults + 1
       /\ dir' = r.dir
       /\ files' = r.files
       /\ writer' = r.writer
       /\ tasks' = tasks \o r.spawned
       /\ segs' = IF r.spawned = <<>> THEN segs
                  ELSE Append(segs,
                         [path |-> r.spawned[1].path,
                          data |-> IF r.spawned[1].path \in DOMAIN r.dir
                                   THEN r.files[r.dir[r.spawned[1].path]].data
                                   ELSE <<>>,
                          result |-> "running"])
       /\ rotations' = IF r.spawned # <<>> THEN rotations + 1 ELSE rotations
       /\ maxSuffix' = IF r.ok /\ cfg.mode = "size" /\ new.n > maxSuffix
                       THEN new.n ELSE maxSuffix
       /\ retired' = IF r.writer # writer THEN retired \cup {writer}
                     ELSE retired
       /\ paths' = IF r.ok THEN Append(paths, new.n) ELSE paths
       /\ rwlock' = [rwlock EXCEPT !.writer = 0]
       /\ callers' = [callers EXCEPT ![th] = "lock_read"]
       /\ last' = [op |-> "make_writer", fault |-> fault, decided |-> TRUE,
                   swapped |-> r.spawned # <<>>, ret |-> 0]
       /\ UNCHANGED <<cfg, lim, state, now, lens, written, restarts, calls>>

\* make_writer, line 578: RollingWriter(self.writer.read())
MakeWriterLockRead(th) ==
    /\ callers[th] = "lock_read"
    /\ CanLockRead(rwlock)
    /\ rwlock' = [rwlock EXCEPT !.readers = @ \cup {th}]
    /\ callers' = [callers EXCEPT ![th] = "guard"]
    /\ last' = Idle
    /\ UNCHANGED <<cfg, lim, dir, files, writer, state, now, tasks, lens,
                   written, faults, restarts, rotations, maxSuffix, segs,
                   retired, paths, calls>>

\* impl io::Write for RollingWriter: (&*self.0).write(buf)
RollingWriterWrite(th, len, fault) ==
    LET a == AppendBytes(files, writer, written, len, fault = "write")
    IN /\ callers[th] = "guard"
       /\ Len(lens) < lim.writes
       /\ fault \in {"none", "write"}
       /\ fault # "none" => faults < lim.faults
       /\ faults' = IF fault = "none" THEN faults ELSE faults + 1
       /\ lens' = Append(lens, len)
       /\ files' = a.files
       /\ written' = IF a.ret < 0 THEN written ELSE written + a.ret
       /\ last' = [op |-> "guard", fault |-> fault, decided |-> FALSE,
                   swapped |-> FALSE, ret |-> a.ret]
       /\ UNCHANGED <<cfg, lim, dir, writer, state, now, tasks, restarts,
                      rotations, maxSuffix, segs, retired, paths, callers,
                      rwlock, calls>>

\* the RollingWriter goes out of scope: its RwLockReadGuard is released
RollingWriterDrop(th) ==
    /\ callers[th] = "guard"
    /\ rwlock' = [rwlock EXCEPT !.readers = @ \ {th}]
    /\ callers' = [callers EXCEPT ![th] = "idle"]
    /\ last' = Idle
    /\ UNCHANGED <<cfg, lim, dir, files, writer, state, now, tasks, lens,
                   written, faults, restarts, rotations, maxSuffix, segs,
                   retired, paths, calls>>

----------------------------------------------------------------------------
(* Specifications *)

Modes == {"size", "age"}

\* "bzip2" stands for the variants compress matches with an empty arm
Compressions == {"none", "gzip", "bzip2"}

Limits(w, f, r) == [writes |-> w, faults |-> f, restarts |-> r,
                    threads |-> 0, calls |-> 0]

\* n threads share the LogRoller through make_writer, c calls in all
SharedLimits(w, n, c) == [writes |-> w, faults |-> 0, restarts |-> 0,
                          threads |-> n, calls |-> c]

\* the state after LogRollerBuilder::build of policy m over an empty
\* directory at time t
InitWith(m, l, t) ==
    LET b == Build(m, EmptyDir, <<>>, t)
    IN /\ cfg = m
       /\ lim = l
       /\ now = t
       /\ dir = b.dir
       /\ files = b.files
       /\ writer = b.writer
       /\ state = b.state
       /\ tasks = <<>>
       /\ lens = <<>>
       /\ written = 0
       /\ faults = 0
       /\ restarts = 0
       /\ rotations = 0
       /\ maxSuffix = 0
       /\ segs = <<>>
       /\ retired = {}
       /\ paths = <<b.state.curr_file_path.n>>
       /\ last = [op |-> "build", fault |-> "none", decided |-> FALSE,
                  swapped |-> FALSE, ret |-> 0]
       /\ callers = [th \in 1..l.threads |-> "idle"]
       /\ rwlock = [readers |-> {}, writer |-> 0]
       /\ calls = 0

Policy(mode, threshold, compression, keep, buflens) ==
    [mode |-> mode, threshold |-> threshold, compression |-> compression,
     max_keep_files |-> keep, buflens |-> buflens]

WriteCall == \E len \in cfg.buflens, fault \in Faults : Write(len, fault)

PipelineStep == \E i \in DOMAIN tasks, fail \in BOOLEAN : Step(i, fail)

NextSize == WriteCall \/ Restart \/ PipelineStep

NextAge == WriteCall \/ Restart \/ PipelineStep \/ Tick

\* size mode with threshold 1: every write after the first rotates; every
\* compression and retention setting, restarts, concurrent pipelines
InitSize ==
    \E c \in {"none", "gzip"}, k \in {NoKeep, 0, 1} :
        InitWith(Policy("size", 1, c, k, {1}), Limits(MaxRotating, 0, MaxRestarts),
                 Unit)

SpecSize == InitSize /\ [][NextSize]_vars

\* size mode with the threshold of the spec's scenario, no pipeline work
InitScenario ==
    \E c \in {"none", "bzip2"} :
        InitWith(Policy("size", 10, c, NoKeep, {1, 5, 6}),
                 Limits(MaxWrites, MaxFaults, MaxRestarts), Unit)

SpecScenario == InitScenario /\ [][NextSize]_vars

\* age mode: no pipeline work, gzip alone, retention alone
InitAge ==
    \E p \in {<<"none", NoKeep>>, <<"gzip", NoKeep>>, <<"none", 1>>},
       t \in Unit..(2 * Unit - 1) :
        InitWith(Policy("age", 0, p[1], p[2], {1}),
                 Limits(MaxRotating, MaxFaults, MaxRestarts), t)

SpecAge == InitAge /\ [][NextAge]_vars

\* gzip in either mode, no retention
InitGzip ==
    \E m \in Modes :
        InitWith(Policy(m, 1, "gzip", NoKeep, {1}),
                 Limits(MaxRotating, MaxFaults, MaxRestarts), Unit)

SpecGzip == InitGzip /\ [][NextAge]_vars

Enter == \E th \in DOMAIN callers : MakeWriterEnter(th)

LockWrite == \E th \in DOMAIN callers : MakeWriterLockWrite(th)

Refresh == \E th \in DOMAIN callers, fault \in Faults : MakeWriterRefresh(th, fault)

LockRead == \E th \in DOMAIN callers : MakeWriterLockRead(th)

GuardWrite ==
    \E th \in DOMAIN callers, len \in cfg.buflens, fault \in Faults :
        RollingWriterWrite(th, len, fault)

Drop == \E th \in DOMAIN callers : RollingWriterDrop(th)

NextShared ==
    \/ WriteCall \/ PipelineStep \/ Tick
    \/ Enter \/ LockWrite \/ Refresh \/ LockRead \/ GuardWrite \/ Drop

\* both modes, threads sharing the writer through make_writer after and
\* between calls of write; the pipeline has no work (one step per run)
InitShared ==
    \E m \in Modes :
        InitWith(Policy(m, 1, "none", NoKeep, {1}),
                 SharedLimits(MaxRotating - 1, MaxThreads, MaxCalls), Unit)

SpecShared == InitShared /\ [][NextShared]_vars

\* size mode, threshold 0: every make_writer call must take the write lock;
\* threads call, write through the guard and drop it
InitLive ==
    InitWith(Policy("size", 0, "none", NoKeep, {1}),
             SharedLimits(MaxRotating - 2, MaxThreads, MaxCalls), Unit)

NextLive ==
    \/ PipelineStep
    \/ Enter \/ LockWrite \/ Refresh \/ LockRead \/ GuardWrite \/ Drop

\* the step of thread th that its position inside make_writer allows, or the
\* drop of its RollingWriter
Proceed(th) ==
    \/ MakeWriterLockWrite(th)
    \/ \E fault \in Faults : MakeWriterRefresh(th, fault)
    \/ MakeWriterLockRead(th)
    \/ RollingWriterDrop(th)

\* every thread keeps running: a lock that can be granted is granted, a
\* refresh under way finishes, a RollingWriter is dropped
Fairness == \A th \in 1..MaxThreads : WF_vars(Proceed(th))

SpecLive == InitLive /\ [][NextLive]_vars /\ Fairness

----------------------------------------------------------------------------
(* What a reader of the directory finds *)

\* flate2's decoder on a file's bytes: only a finished gzip stream decodes
Gunzip(f) == IF f.enc = "gzip" THEN f.data ELSE <<>>

\* the bytes of the closed segment numbered n, plain or compressed
SegData(n) ==
    IF Plain(n) \in DOMAIN dir THEN files[dir[Plain(n)]].data
    ELSE Gunzip(files[dir[GzOf(Plain(n))]])

RECURSIVE Concat(_)
Concat(S) ==
    IF S = {} THEN <<>>
    ELSE LET n == CHOOSE x \in S : \A y \in S : x <= y
         IN SegData(n) \o Concat(S \ {n})

\* closed segments in rotation order, then the active segment
AllBytes ==
    Concat({p.n : p \in {q \in DOMAIN dir : q.n > 0}})
    \o (IF Canon \in DOMAIN dir THEN files[dir[Canon]].data ELSE <<>>)

MatchingFiles == {p \in DOMAIN dir : Matches(cfg, p)}

----------------------------------------------------------------------------
(* Claims *)

\* C1: with no retention limit, once every pipeline run has completed, the
\* bytes of the successful writes are in the segment files exactly once and
\* in write order (closed segments in rotation order, then the active one),
\* whatever writes, rotations and restarts came before.
NoLostBytes ==
    (cfg.max_keep_files = NoKeep /\ tasks = <<>>)
        => AllBytes = Bytes(0, written)

\* C2: no step of a pipeline run unlinks or changes the file the active
\* handle refers to.
PipelineSparesActive ==
    [][last'.op = "step" =>
          /\ \A p \in DOMAIN dir :
                dir[p] = writer => (p \in DOMAIN dir' /\ dir'[p] = writer)
          /\ files'[writer] = files[writer]]_vars

\* C3: in size mode, with nothing pruned, the suffix a rotation renames onto
\* is greater than every suffix assigned before, in this writer instance or
\* before a restart.
SuffixesNeverReused ==
    [][(cfg.mode = "size" /\ cfg.max_keep_files = NoKeep
        /\ last'.op = "write" /\ paths' # paths)
          => state.next_size_based_index > maxSuffix]_vars

\* C4: a write whose rotation attempt fails (rename or create) still appends
\* its bytes to the old handle and returns the append's result, leaves the
\* rotation state as it was, and the next write attempts the rotation again.
RotationFailureNonFatal ==
    [][(last'.op = "write" /\ last'.fault \in {"rename", "create"})
          => /\ writer' = writer
             /\ last'.ret = lens'[Len(lens')]
             /\ files'[writer].data
                   = files[writer].data \o Bytes(written, last'.ret)
             /\ state'.next_size_based_index = state.next_size_based_index
             /\ state'.next_age_based_time = state.next_age_based_time
             /\ ShouldRollover(cfg, state', now') # {}]_vars

\* C9: with retention K, once more than K rotations have completed and every
\* pipeline run has settled (one writer lifetime, no injected failure),
\* exactly K matching files remain and they are the K most recently created.
RetentionKeepsK ==
    (cfg.max_keep_files # NoKeep /\ restarts = 0 /\ faults = 0
     /\ tasks = <<>> /\ rotations > cfg.max_keep_files)
        => /\ Cardinality(MatchingFiles) = cfg.max_keep_files
           /\ \A p \in MatchingFiles : dir[p] > Len(files) - cfg.max_keep_files

\* C5: in size mode a write call rotates exactly when the size the active
\* file had before the call (its size at construction plus the bytes appended
\* since the last rotation) is at least the threshold; the call's own bytes
\* play no part.  Stated for runs without injected I/O failure.
SizeDecision ==
    [][(cfg.mode = "size" /\ last'.op = "write" /\ faults' = 0)
          => /\ last'.decided <=> (Len(files[writer].data) >= cfg.threshold)
             /\ last'.swapped <=> last'.decided
             /\ state'.next_size_based_index
                   = state.next_size_based_index
                     + (IF Len(files[writer].data) >= cfg.threshold
                        THEN 1 ELSE 0)]_vars

SizeDecisionSeen ==
    /\ cfg.mode = "size" /\ last.op = "write" /\ last.swapped
    /\ faults = 0 /\ restarts = 1 /\ rotations = 1
    /\ Len(files[dir[Plain(state.next_size_based_index - 1)]].data)
          >= cfg.threshold

\* the first call at which the cumulative length reaches the threshold
Crosses(k) ==
    /\ Sum(SubSeq(lens, 1, k)) >= cfg.threshold
    /\ Sum(SubSeq(lens, 1, k - 1)) < cfg.threshold

\* C6: from an empty directory, the write that brings the size to the
\* threshold or above does not rotate; the next write rotates once, before
\* appending: filename.1 holds all earlier bytes and the fresh canonical file
\* holds that write's bytes only.
RotateOnFollowingWrite ==
    (cfg.mode = "size" /\ restarts = 0 /\ faults = 0) =>
        \A k \in 1..Len(lens) :
            Crosses(k) =>
                /\ Len(lens) = k =>
                      /\ rotations = 0
                      /\ DOMAIN dir = {Canon}
                      /\ files[dir[Canon]].data = Bytes(0, Sum(lens))
                /\ Len(lens) = k + 1 =>
                      /\ rotations = 1
                      /\ DOMAIN dir = {Canon, Plain(1)}
                      /\ files[dir[Plain(1)]].data
                            = Bytes(0, Sum(SubSeq(lens, 1, k)))
                      /\ files[dir[Canon]].data
                            = Bytes(Sum(SubSeq(lens, 1, k)), lens[k + 1])

\* the scenario of the spec: threshold 10, writes of 6, 6 and 1 bytes
ScenarioSeen ==
    /\ cfg.threshold = 10 /\ lens = <<6, 6, 1>>
    /\ restarts = 0 /\ faults = 0
    /\ Plain(1) \in DOMAIN dir /\ Len(files[dir[Plain(1)]].data) = 12
    /\ Canon \in DOMAIN dir /\ Len(files[dir[Canon]].data) = 1

\* C7: from an empty directory, while the cumulative length of the
\* successful writes stays below the threshold, no rotation has occurred and
\* the directory holds one file, whose content is the written bytes.
BelowThresholdOneFile ==
    (cfg.mode = "size" /\ faults = 0 /\ Sum(lens) < cfg.threshold) =>
        /\ rotations = 0
        /\ state.next_size_based_index = 1
        /\ DOMAIN dir = {Canon}
        /\ Len(files[dir[Canon]].data) = Sum(lens)
        /\ files[dir[Canon]].data = Bytes(0, written)

BelowThresholdSeen ==
    /\ cfg.mode = "size" /\ faults = 0 /\ Len(lens) = 3
    /\ Sum(lens) < cfg.threshold /\ Sum(lens) > 5

NoDuplicates(s) == \A i, j \in DOMAIN s : i # j => s[i] # s[j]

\* C8: in age mode a write call rotates exactly when now >= next_deadline.
\* Before the boundary it appends to the segment already open; at or after
\* it (unless opening the new file fails) it switches to a new file named by
\* the deadline's timestamp and appends there.  A segment the handle was
\* switched away from is never changed again, and the names of the
\* rotations of one writer are pairwise distinct.
AgeRotation ==
    [][/\ \A i \in retired : files'[i] = files[i]
       /\ (cfg.mode = "age" /\ last'.op = "write") =>
             LET due == now >= state.next_age_based_time
                 target == AgePath(state.next_age_based_time)
             IN /\ last'.decided <=> due
                /\ ~due =>
                      /\ writer' = writer
                      /\ last'.ret >= 0 =>
                            files'[writer].data
                               = files[writer].data \o Bytes(written, last'.ret)
                /\ (due /\ last'.fault # "create") =>
                      /\ writer' = Len(files) + 1
                      /\ writer' \notin retired \cup {writer}
                      /\ target \in DOMAIN dir' /\ dir'[target] = writer'
                      /\ last'.ret >= 0 =>
                            files'[writer'].data = Bytes(written, last'.ret)
                /\ writer' \notin retired'
                /\ NoDuplicates(paths')]_vars

AgeRotationSeen ==
    /\ cfg.mode = "age" /\ last.op = "write" /\ last.swapped
    /\ rotations = 2 /\ restarts = 0 /\ Cardinality(retired) = 2

\* the closed segment i is stored compressed: its plain file is gone and its
\* .gz decodes to the bytes the segment held when it was closed
StoredCompressed(i) ==
    /\ segs[i].path \notin DOMAIN dir
    /\ GzOf(segs[i].path) \in DOMAIN dir
    /\ files[dir[GzOf(segs[i].path)]].enc = "gzip"
    /\ Gunzip(files[dir[GzOf(segs[i].path)]]) = segs[i].data

CompressFailureKeepsPlain ==
    [][\A i \in DOMAIN tasks, fail \in BOOLEAN :
          Step(i, fail) =>
             LET p == tasks[i].path
                 g == GzOf(tasks[i].path)
             IN /\ (fail /\ tasks[i].pc \in {"open", "create", "copy"}) =>
                      /\ segs'[tasks[i].id].result = "err"
                      /\ p \in DOMAIN dir =>
                            /\ p \in DOMAIN dir'
                            /\ dir'[p] = dir[p]
                            /\ files'[dir[p]] = files[dir[p]]
                /\ (p \in DOMAIN dir /\ p \notin DOMAIN dir') =>
                      /\ tasks[i].pc = "remove" /\ ~fail
                      /\ g \in DOMAIN dir
                      /\ files[dir[g]].enc = "gzip"
                      /\ Gunzip(files[dir[g]]) = files[dir[p]].data]_vars

CompressFailureSeen ==
    \E i \in DOMAIN segs :
        /\ segs[i].result = "err" /\ faults = 1 /\ last.fault = "step"
        /\ Len(segs[i].data) > 0
        /\ segs[i].path \in DOMAIN dir
        /\ GzOf(segs[i].path) \in DOMAIN dir
        /\ files[dir[segs[i].path]].data = segs[i].data

\* C12: a write call that meets no I/O failure of its own (rename, create,
\* append) returns Ok, whatever the pipeline runs have done or failed to do.
WriteErrorsOnlyFromWritePath ==
    (last.op = "write" /\ last.fault = "none") => last.ret >= 0

\* C13: within one writer lifetime no two pipeline runs are given the same
\* closed-segment path, whichever entry point (write or make_writer) made
\* the rotations.
PipelinePathsDisjoint ==
    restarts = 0 =>
        \A i, j \in DOMAIN segs : i # j => segs[i].path # segs[j].path

\* C14: the handle is replaced only under exclusive access: by write, which
\* holds &mut self while no guard exists and no make_writer call runs, or by
\* make_writer while it holds the write guard.  A write guard excludes every
\* read guard and the other way round; read guards do not exclude each other.
SwapOnlyUnderExclusiveLock ==
    [][/\ writer' # writer =>
             /\ rwlock.readers = {}
             /\ \/ last'.op = "write" /\ rwlock.writer = 0 /\ Exclusive
                \/ /\ last'.op = "make_writer" /\ rwlock.writer # 0
                   /\ callers[rwlock.writer] = "refresh"
       /\ (rwlock'.writer # 0 => rwlock'.readers = {})
       /\ (rwlock'.readers # rwlock.readers /\ rwlock'.readers # {})
             => rwlock.writer = 0 /\ rwlock'.writer = 0
       /\ \A th \in DOMAIN callers :
             /\ (callers[th] = "guard") <=> (th \in rwlock.readers)
             /\ (callers[th] = "refresh") <=> (th = rwlock.writer)]_vars

\* two read guards held at once, after a rotation made by make_writer
SharedGuardsSeen ==
    /\ Cardinality(rwlock.readers) = 2
    /\ rotations > 0
    /\ lens = <<>>

\* C15: in size mode curr_file_size_bytes equals the size of the file the
\* active handle refers to: its size when it became active (0, or the size
\* found at construction) plus the bytes appended to it since.
SizeCounterExact ==
    cfg.mode = "size" => state.curr_file_size_bytes = Len(files[writer].data)

\* C16: in size mode the active handle refers to the file linked at the
\* canonical path, and every other file is a closed segment filename.N or
\* filename.N.gz whose N is one of the suffixes assigned so far, 1 upwards.
CanonicalIsActive ==
    cfg.mode = "size" =>
        /\ Canon \in DOMAIN dir
        /\ dir[Canon] = writer
        /\ \A p \in DOMAIN dir \ {Canon} :
              p.n >= 1 /\ p.n < state.next_size_based_index

\* C17: in age mode, right after construction and right after a write that
\* rotated, next_age_based_time is now plus one unit truncated down to a
\* boundary of the granularity: strictly later than now and at most one
\* unit later.
DeadlineAfterNow ==
    (cfg.mode = "age" /\ (last.op = "build" \/ (last.op = "write" /\ last.decided)))
        => /\ state.next_age_based_time = (now + Unit) - ((now + Unit) % Unit)
           /\ state.next_age_based_time > now
           /\ state.next_age_based_time <= now + Unit

\* a rotation off the boundary: the new interval is shorter than a unit
DeadlineSeen ==
    /\ cfg.mode = "age" /\ last.op = "write" /\ last.swapped
    /\ now % Unit # 0
    /\ state.next_age_based_time - now < Unit
    /\ rotations = 2

\* C18: a rotation through either entry point resets the rotation state: in
\* size mode the suffix advances and the counter restarts at the bytes of
\* the rotating call, in age mode the deadline moves past now; so the next
\* call does not rotate onto the same target.
RotationResetsState ==
    [][(last'.op \in {"write", "make_writer"} /\ last'.swapped) =>
          IF cfg.mode = "size"
          THEN /\ state'.next_size_based_index = state.next_size_based_index + 1
               /\ state'.curr_file_size_bytes
                     = (IF last'.op = "write" THEN lens'[Len(lens')] ELSE 0)
          ELSE state'.next_age_based_time > now']_vars

\* C19: in size mode the suffix found at construction is greater than the
\* suffix of every closed segment in the directory, plain or .gz.
RecoveredSuffixIsFresh ==
    (cfg.mode = "size" /\ last.op = "build") =>
        \A p \in DOMAIN dir : p.n < state.next_size_based_index

\* C20: in age mode, without I/O failures, a write's bytes go to the file
\* named by the period that contains the time of the write.
WriteGoesToCurrentPeriod ==
    [][(cfg.mode = "age" /\ last'.op = "write" /\ faults' = 0) =>
          /\ AgePath(now) \in DOMAIN dir'
          /\ dir'[AgePath(now)] = writer'
          /\ Len(files'[writer'].data) > 0
          /\ files'[writer'].data[Len(files'[writer'].data)] = written']_vars

====
